---------------------------- MODULE Spec2Model ----------------------------
(***************************************************************************)
(* Base media set registry of OpenTTD (src/base_media_func.h):             *)
(* BaseSet::FillSetDetails reads one set from its ini manifest,            *)
(* BaseMedia::AddFile reconciles it with the sets already known,           *)
(* BaseMedia::SetSet selects the used set, and HasSet / GetNumSets /       *)
(* GetIndexOfUsedSet / GetSet query the two intrusive singly linked lists  *)
(* available_sets and duplicate_sets.                                      *)
(*                                                                         *)
(* The values of the metadata group and the MD5 checksums are C strings,   *)
(* modelled as sequences of ASCII codes; filenames, which the code only    *)
(* copies, are TLA+ strings.  Pointers to sets are heap addresses 1, 2,    *)
(* ...; NULL is 0.                                                         *)
(***************************************************************************)
EXTENDS Integers, Sequences, FiniteSets, TLC

VARIABLES
    sets,            \* the heap: sets[p] is the Tbase_set object at address p
    freed,           \* addresses whose object was deleted again by AddFile
    available_sets,  \* BaseMedia::available_sets, head of the accepted list
    duplicate_sets,  \* BaseMedia::duplicate_sets, head of the superseded list
    used_set,        \* BaseMedia::used_set
    allow_empty,     \* allow_empty_filename the set kind passes to FillSetDetails
    last,            \* the last call made: operation, arguments, result
    parsed           \* the number of AddFile calls whose manifest was well formed

vars ==
    <<sets, freed, available_sets, duplicate_sets, used_set, allow_empty, last, parsed>>

NULL == 0

(***************************************************************************)
(* Bounds of the model.                                                    *)
(***************************************************************************)
\* AddFile calls in one behaviour of Spec (registry reconciliation)
MaxAdds == 3
\* AddFile calls in one behaviour of SpecFill (manifest reading, matching)
MaxFillAdds == 2

(***************************************************************************)
(* Program constants.                                                      *)
(***************************************************************************)
\* Tnum_files, the number of files of the set kind (template parameter)
Tnum_files == 2
\* sizeof(file->hash), the bytes of an MD5 digest
HashSize == 16

(***************************************************************************)
(* Characters and integers.                                                *)
(***************************************************************************)
\* '\0', '0', '9', 'a', 'f', 'A', 'F', '-', '+', ' ' as ASCII codes
NUL == 0

Ch0 == 48

Ch9 == 57

Cha == 97

Chf == 102

ChA == 65

ChF == 70

\* *c for the C string s (0-based i); the terminator follows the last character
CharAt(s, i) == IF i < Len(s) THEN s[i + 1] ELSE NUL

RECURSIVE BitXor(_, _)
\* a ^ b on non-negative integers
BitXor(a, b) ==
    IF a = 0 THEN b
    ELSE IF b = 0 THEN a
    ELSE (((a % 2) + (b % 2)) % 2) + 2 * BitXor(a \div 2, b \div 2)

RECURSIVE BitOr(_, _)
\* a | b on non-negative integers
BitOr(a, b) ==
    IF a = 0 THEN b
    ELSE IF b = 0 THEN a
    ELSE (IF (a % 2) = 1 \/ (b % 2) = 1 THEN 1 ELSE 0) + 2 * BitOr(a \div 2, b \div 2)

RECURSIVE Pow2(_)
Pow2(n) == IF n = 0 THEN 1 ELSE 2 * Pow2(n - 1)

RECURSIVE AtoiDigits(_, _, _)
\* the digit loop of atoi: stops at the first character that is no digit
AtoiDigits(s, i, acc) ==
    IF Ch0 <= CharAt(s, i) /\ CharAt(s, i) <= Ch9
    THEN AtoiDigits(s, i + 1, 10 * acc + (CharAt(s, i) - Ch0))
    ELSE acc

\* atoi(s) for strings without leading white space: optional sign, then digits
atoi(s) ==
    IF CharAt(s, 0) = 45 THEN 0 - AtoiDigits(s, 1, 0)
    ELSE IF CharAt(s, 0) = 43 THEN AtoiDigits(s, 1, 0)
    ELSE AtoiDigits(s, 0, 0)

(***************************************************************************)
(* The ini manifest, as the lookups of FillSetDetails see it.              *)
(*   metadata             the metadata group exists                        *)
(*   name, description, shortname, version, fallback                       *)
(*                        [present, value]: metadata->find(key)            *)
(*   files[i]             has_key, has_value, filename: files->find of the *)
(*                        i-th file_names key and its value (may be NULL); *)
(*                        md5_present, md5_has_value, md5: md5s->find of   *)
(*                        that filename; check: what T::CheckMD5 answers   *)
(***************************************************************************)
StrEmpty(s) == CharAt(s, 0) = NUL

\* fetch_metadata without the StrEmpty test
FetchIgnoresEmpty(item) == item.present

\* fetch_metadata(...) != NULL
fetch_metadata(item) == item.present /\ ~StrEmpty(item.value)

ZeroHash == [k \in 1..HashSize |-> 0]

\* a file slot after memset(this, 0, sizeof(*this))
BlankFile == [has_name |-> FALSE, filename |-> "", hash |-> ZeroHash]

\* a set after memset(this, 0, sizeof(*this))
BlankSet ==
    [name |-> <<>>, description |-> <<>>, shortname |-> 0, version |-> 0,
     fallback |-> FALSE, files |-> [i \in 1..Tnum_files |-> BlankFile],
     valid_files |-> 0, found_files |-> 0, next |-> NULL]

RECURSIVE PackShortname(_, _, _)
\* for (i = 0; value[i] != '\0' && i < 4; i++) shortname |= value[i] << (i * 8)
\* (the characters are ASCII, below 128, so the 32 bits never overflow)
PackShortname(value, i, acc) ==
    IF CharAt(value, i) # NUL /\ i < 4
    THEN PackShortname(value, i + 1, BitOr(acc, CharAt(value, i) * Pow2(i * 8)))
    ELSE acc

\* the value of one checksum character, -1 for the else branch (malformed)
HexDigit(c) ==
    IF Ch0 <= c /\ c <= Ch9 THEN c - Ch0
    ELSE IF Cha <= c /\ c <= Chf THEN c - Cha + 10
    ELSE IF ChA <= c /\ c <= ChF THEN c - ChA + 10
    ELSE -1

\* the loop bound of the checksum decoder: sizeof(file->hash) * 2
DecodeLen == HashSize * 2

\* the store with the first character of a pair as the low nibble
DecodeStoreLowFirst(hash, i, j) ==
    IF i % 2 = 0
    THEN [hash EXCEPT ![(i \div 2) + 1] = j]
    ELSE [hash EXCEPT ![(i \div 2) + 1] = BitOr(@, (j * 16) % 256)]

\* hash[i / 2] after character i with value j
DecodeStore(hash, i, j) ==
    IF i % 2 = 0
    THEN [hash EXCEPT ![(i \div 2) + 1] = (j * 16) % 256]
    ELSE [hash EXCEPT ![(i \div 2) + 1] = BitOr(@, j)]

RECURSIVE DecodeLoop(_, _, _)
\* for (i = 0; i < sizeof(file->hash) * 2; i++, c++) { ... }
DecodeLoop(c, i, hash) ==
    IF i >= DecodeLen THEN [ok |-> TRUE, hash |-> hash]
    ELSE IF HexDigit(CharAt(c, i)) = -1 THEN [ok |-> FALSE, hash |-> hash]
    ELSE DecodeLoop(c, i + 1, DecodeStore(hash, i, HexDigit(CharAt(c, i))))

\* the checksum decoder of FillSetDetails on the md5s value c
DecodeMD5String(c) == DecodeLoop(c, 0, ZeroHash)

(***************************************************************************)
(* The checksum strings of the manifests.                                  *)
(***************************************************************************)
\* "ff000...0": 32 characters
HexFF == [k \in 1..32 |-> IF k <= 2 THEN Chf ELSE Ch0]

\* "FF000...0": the same digest in upper case
HexUpperFF == [k \in 1..32 |-> IF k <= 2 THEN ChF ELSE Ch0]

\* "0a000...0"
Hex0A == [k \in 1..32 |-> IF k = 2 THEN Cha ELSE Ch0]

\* 31 characters: one too few
HexShort == [k \in 1..31 |-> IF k <= 2 THEN Chf ELSE Ch0]

\* 33 characters: one too many
HexLong == [k \in 1..33 |-> IF k <= 2 THEN Chf ELSE Ch0]

\* 'g' as the 32nd character
HexBadChar == [k \in 1..32 |-> IF k = 32 THEN 103 ELSE Ch0]

\* "0123456789abcdefABCDEF9876543210": every hexadecimal digit in both cases
HexEveryDigit ==
    <<48, 49, 50, 51, 52, 53, 54, 55, 56, 57, 97, 98, 99, 100, 101, 102,
      65, 66, 67, 68, 69, 70, 57, 56, 55, 54, 53, 52, 51, 50, 49, 48>>

\* HexEveryDigit rotated to start at every position: each digit occurs at
\* each position
HexRotations ==
    {[k \in 1..32 |-> HexEveryDigit[((k - 1 + r) % 32) + 1]] : r \in 0..31}

\* the characters next to the ranges of digits and letters, and a blank:
\* '/', ':', '@', 'G', '`', 'g', ' '
NonHexChars == {47, 58, 64, 71, 96, 103, 32}

\* HexEveryDigit with one character that is no hexadecimal digit, at each
\* position
HexOneBadChar ==
    {[HexEveryDigit EXCEPT ![k] = ch] : k \in 1..32, ch \in NonHexChars}

\* the beginnings of HexEveryDigit, 1 to 31 characters long
HexTooShort == {SubSeq(HexEveryDigit, 1, n) : n \in 1..31}

\* HexEveryDigit followed by "0", "g", "00", or by itself
HexTooLong ==
    {HexEveryDigit \o tail : tail \in {<<48>>, <<103>>, <<48, 48>>, HexEveryDigit}}

\* the checksum strings given to the decoder alone
DecodeStrings == HexRotations \cup HexOneBadChar \cup HexTooShort \cup HexTooLong

ChecksumStrings ==
    {<<>>, HexFF, HexUpperFF, Hex0A, HexShort, HexLong, HexBadChar} \cup DecodeStrings

\* the decoder on every checksum string of the manifests, computed once
DecodedChecksums == [c \in ChecksumStrings |-> DecodeMD5String(c)]

DecodeMD5(c) == DecodedChecksums[c]

\* CheckMD5 counting with a mismatching file taken as valid
CountMismatchAsValid(set, res) ==
    CASE res = "CR_MATCH" ->
            [set EXCEPT !.valid_files = @ + 1, !.found_files = @ + 1]
      [] res = "CR_MISMATCH" ->
            [set EXCEPT !.valid_files = @ + 1, !.found_files = @ + 1]
      [] OTHER -> set

\* the counters after T::CheckMD5 answered res
CountChecked(set, res) ==
    CASE res = "CR_MATCH" ->
            [set EXCEPT !.valid_files = @ + 1, !.found_files = @ + 1]
      [] res = "CR_MISMATCH" -> [set EXCEPT !.found_files = @ + 1]
      [] OTHER -> set

\* a slot that lists no file counted as valid but not as found
CountEmptyAsValidOnly(set) == [set EXCEPT !.valid_files = @ + 1]

\* the counters after a slot that lists no file
CountEmpty(set) == [set EXCEPT !.valid_files = @ + 1, !.found_files = @ + 1]

\* item == NULL || (item->value == NULL && !allow_empty_filename)
NoFileEntry(slot, allow_empty_filename) ==
    ~slot.has_key \/ (~slot.has_value /\ ~allow_empty_filename)

\* item == NULL || item->value == NULL for the md5s lookup
NoChecksum(slot) == ~slot.md5_present \/ ~slot.md5_has_value

RECURSIVE FillFiles(_, _, _, _)
\* for (uint i = 0; i < Tnum_files; i++) { ... } of FillSetDetails
FillFiles(ini, allow_empty_filename, i, set) ==
    IF i >= Tnum_files THEN [ok |-> TRUE, set |-> set]
    ELSE LET slot == ini.files[i + 1] IN
        IF NoFileEntry(slot, allow_empty_filename) THEN [ok |-> FALSE, set |-> set]
        ELSE IF ~slot.has_value
        THEN FillFiles(ini, allow_empty_filename, i + 1, CountEmpty(set))
        ELSE IF NoChecksum(slot) THEN [ok |-> FALSE, set |-> set]
        ELSE LET d == DecodeMD5(slot.md5) IN
            IF ~d.ok THEN [ok |-> FALSE, set |-> set]
            ELSE FillFiles(ini, allow_empty_filename, i + 1,
                    CountChecked(
                        [set EXCEPT !.files[i + 1] =
                            [has_name |-> TRUE, filename |-> slot.filename, hash |-> d.hash]],
                        slot.check))

\* the flag with the comparison with "false" left out
FallbackUnlessZero(item) == item.present /\ item.value # <<48>>

\* this->fallback = (item != NULL && strcmp(value, "0") != 0 && strcmp(value, "false") != 0)
FallbackOf(item) ==
    item.present /\ item.value # <<48>> /\ item.value # <<102, 97, 108, 115, 101>>

\* BaseSet::FillSetDetails: [ok |-> the return value, set |-> *this afterwards]
FillSetDetails(ini, allow_empty_filename) ==
    IF ~ini.metadata THEN [ok |-> FALSE, set |-> BlankSet]
    ELSE IF ~fetch_metadata(ini.name) THEN [ok |-> FALSE, set |-> BlankSet]
    ELSE IF ~fetch_metadata(ini.description) THEN [ok |-> FALSE, set |-> BlankSet]
    ELSE IF ~fetch_metadata(ini.shortname) THEN [ok |-> FALSE, set |-> BlankSet]
    ELSE IF ~fetch_metadata(ini.version) THEN [ok |-> FALSE, set |-> BlankSet]
    ELSE FillFiles(ini, allow_empty_filename, 0,
            [BlankSet EXCEPT !.name = ini.name.value,
                             !.description = ini.description.value,
                             !.shortname = PackShortname(ini.shortname.value, 0, 0),
                             !.version = atoi(ini.version.value),
                             !.fallback = FallbackOf(ini.fallback)])

\* Tnum_files - found_files
GetNumMissing(s) == Tnum_files - s.found_files

\* Tnum_files - valid_files
GetNumInvalid(s) == Tnum_files - s.valid_files

(***************************************************************************)
(* What a well formed manifest is, stated on the manifest alone.           *)
(***************************************************************************)
\* the characters 0-9, a-f, A-F
HexChars == (48..57) \cup (97..102) \cup (65..70)

\* a checksum that cannot be decoded: it ends before 2 * HashSize characters,
\* or one of these characters is no hexadecimal digit
Undecodable(md5) ==
    \/ Len(md5) < 2 * HashSize
    \/ \E k \in 1..(2 * HashSize) : md5[k] \notin HexChars

MissingOrEmpty(item) == ~item.present \/ item.value = <<>>

\* the manifest is malformed: the metadata group or one of its required
\* fields is missing or empty, a file key is missing, or the checksum of a
\* listed file is missing or undecodable
Malformed(ini) ==
    \/ ~ini.metadata
    \/ MissingOrEmpty(ini.name)
    \/ MissingOrEmpty(ini.description)
    \/ MissingOrEmpty(ini.shortname)
    \/ MissingOrEmpty(ini.version)
    \/ \E i \in 1..Len(ini.files) :
          \/ ~ini.files[i].has_key
          \/ /\ ini.files[i].has_value
             /\ \/ ~ini.files[i].md5_present
                \/ ~ini.files[i].md5_has_value
                \/ Undecodable(ini.files[i].md5)

\* the manifest is well formed for a set kind: not malformed, and it lists a
\* file for every slot unless the kind allows a slot to be empty
WellFormed(ini, allow_empty_filename) ==
    /\ ~Malformed(ini)
    /\ \A i \in 1..Len(ini.files) : ini.files[i].has_value \/ allow_empty_filename

(***************************************************************************)
(* The two linked lists.  h is the heap, a set's successor is h[p].next.   *)
(***************************************************************************)
RECURSIVE Walk(_, _, _)
\* the addresses reached from head by following next, in order; the walk
\* stops when it meets an address again, so that it is defined on a cycle
Walk(h, head, seen) ==
    IF head = NULL \/ head \in seen THEN <<>>
    ELSE <<head>> \o Walk(h, h[head].next, seen \cup {head})

\* the list starting at head, as the sequence of its addresses
Chain(h, head) == Walk(h, head, {})

RECURSIVE EndsInNull(_, _, _)
\* following next from head reaches NULL
EndsInNull(h, head, seen) ==
    IF head = NULL THEN TRUE
    ELSE IF head \in seen THEN FALSE
    ELSE EndsInNull(h, h[head].next, seen \cup {head})

Range(seq) == {seq[k] : k \in 1..Len(seq)}

\* strcmp(c->name, set->name) == 0 || c->shortname == set->shortname
Collides(c, set) == c.name = set.name \/ c.shortname = set.shortname

RECURSIVE FindDuplicate(_, _, _)
\* for (c = available_sets; c != NULL; c = c->next) if (...) { duplicate = c; break; }
FindDuplicate(h, c, set) ==
    IF c = NULL THEN NULL
    ELSE IF Collides(h[c], set) THEN c
    ELSE FindDuplicate(h, h[c].next, set)

\* the comparison with the version taking precedence over the valid files
KeepsDuplicateVersionFirst(duplicate, set) ==
    (duplicate.version = set.version /\ duplicate.valid_files >= set.valid_files)
        \/ duplicate.version > set.version

\* the comparison with > for >= on the version: an equal candidate replaces
KeepsDuplicateStrict(duplicate, set) ==
    (duplicate.valid_files = set.valid_files /\ duplicate.version > set.version)
        \/ duplicate.valid_files > set.valid_files

\* the condition under which the new set is not added
KeepsDuplicate(duplicate, set) ==
    (duplicate.valid_files = set.valid_files /\ duplicate.version >= set.version)
        \/ duplicate.valid_files > set.valid_files

\* the replacement without the update of used_set
KeepUsed(used, duplicate, p) == used

\* if (used_set == duplicate) used_set = set
RetargetUsed(used, duplicate, p) == IF used = duplicate THEN p ELSE used

RECURSIVE LinkAt(_, _, _, _)
\* while (*prev != target) prev = &(*prev)->next;  *prev = p
\* with prev starting at the list head: [head, h] afterwards
LinkAt(h, head, target, p) ==
    IF head = target THEN [head |-> p, h |-> h]
    ELSE LET rest == LinkAt(h, h[head].next, target, p)
         IN  [head |-> head, h |-> [rest.h EXCEPT ![head].next = rest.head]]

\* the registry as one value
Registry ==
    [sets |-> sets, freed |-> freed, available_sets |-> available_sets,
     duplicate_sets |-> duplicate_sets, used_set |-> used_set]

\* the losing set is not linked into duplicate_sets
DropLoser(reg, p) == reg

\* the new set p lost: set->next = duplicate_sets; duplicate_sets = set
LinkLoser(reg, p) ==
    [reg EXCEPT !.sets[p].next = reg.duplicate_sets, !.duplicate_sets = p]

\* the winner is appended to available_sets instead of taking the place of
\* duplicate
ReplaceDuplicateAtTail(reg, p, duplicate) ==
    LET unlinked == LinkAt(reg.sets, reg.available_sets, duplicate, reg.sets[duplicate].next)
        appended == LinkAt(unlinked.h, unlinked.head, NULL, p)
        h2 == [appended.h EXCEPT ![duplicate].next = reg.duplicate_sets]
    IN  [reg EXCEPT !.sets = h2,
                    !.available_sets = appended.head,
                    !.used_set = RetargetUsed(reg.used_set, duplicate, p),
                    !.duplicate_sets = duplicate]

\* the new set p won against duplicate: it takes the place of duplicate in
\* available_sets and duplicate moves to the head of duplicate_sets
ReplaceDuplicate(reg, p, duplicate) ==
    LET spliced == LinkAt(reg.sets, reg.available_sets, duplicate, p)
        h1 == [spliced.h EXCEPT ![p].next = spliced.h[duplicate].next]
        h2 == [h1 EXCEPT ![duplicate].next = reg.duplicate_sets]
    IN  [reg EXCEPT !.sets = h2,
                    !.available_sets = spliced.head,
                    !.used_set = RetargetUsed(reg.used_set, duplicate, p),
                    !.duplicate_sets = duplicate]

\* no duplicate: while (*last != NULL) last = &(*last)->next;  *last = set
AppendSet(reg, p) ==
    LET linked == LinkAt(reg.sets, reg.available_sets, NULL, p)
    IN  [reg EXCEPT !.sets = linked.h, !.available_sets = linked.head]

\* FillSetDetails failed: delete set
DiscardSet(reg, p) ==
    [reg EXCEPT !.sets[p] = BlankSet, !.freed = reg.freed \cup {p}]

\* the body of AddFile once set (at address p of reg) is filled:
\* [reg |-> the registry afterwards, ret |-> the return value,
\*  duplicate |-> the colliding set found, or NULL]
Reconcile(reg, p, ok) ==
    IF ~ok THEN [reg |-> DiscardSet(reg, p), ret |-> FALSE, duplicate |-> NULL]
    ELSE LET duplicate == FindDuplicate(reg.sets, reg.available_sets, reg.sets[p])
         IN  IF duplicate # NULL
             THEN IF KeepsDuplicate(reg.sets[duplicate], reg.sets[p])
                  THEN [reg |-> LinkLoser(reg, p), ret |-> FALSE,
                        duplicate |-> duplicate]
                  ELSE [reg |-> ReplaceDuplicate(reg, p, duplicate), ret |-> TRUE,
                        duplicate |-> duplicate]
             ELSE [reg |-> AppendSet(reg, p), ret |-> TRUE, duplicate |-> NULL]

\* what last holds when a call has no manifest or no name argument
NoItem == [present |-> FALSE, value |-> <<>>]

NoIni ==
    [metadata |-> FALSE, name |-> NoItem, description |-> NoItem, shortname |-> NoItem,
     version |-> NoItem, fallback |-> NoItem, files |-> <<>>]

\* BaseMedia::AddFile on the manifest ini
AddFile(ini) ==
    \E filled \in {FillSetDetails(ini, allow_empty)} :
    \E res \in {Reconcile([Registry EXCEPT !.sets = Append(sets, filled.set)],
                          Len(sets) + 1, filled.ok)} :
        /\ sets' = res.reg.sets
        /\ freed' = res.reg.freed
        /\ available_sets' = res.reg.available_sets
        /\ duplicate_sets' = res.reg.duplicate_sets
        /\ used_set' = res.reg.used_set
        /\ last' = [op |-> "AddFile", ini |-> ini, name |-> <<>>, p |-> Len(sets) + 1,
                    ok |-> filled.ok, duplicate |-> res.duplicate, ret |-> res.ret,
                    hooks |-> 0, hook_used |-> NULL]
        /\ parsed' = IF WellFormed(ini, allow_empty) THEN parsed + 1 ELSE parsed
        /\ UNCHANGED allow_empty

RECURSIVE FindLastByName(_, _, _)
\* the search that goes on to the last set of that name
FindLastByName(h, s, name) ==
    IF s = NULL THEN NULL
    ELSE IF FindLastByName(h, h[s].next, name) # NULL THEN FindLastByName(h, h[s].next, name)
    ELSE IF h[s].name = name THEN s
    ELSE NULL

RECURSIVE FindByName(_, _, _)
\* for (s = available_sets; s != NULL; s = s->next) if (strcmp(name, s->name) == 0) ...
FindByName(h, s, name) ==
    IF s = NULL THEN NULL
    ELSE IF h[s].name = name THEN s
    ELSE FindByName(h, h[s].next, name)

\* a call of CheckExternalFiles() on the paths that return false as well
HookOnEveryCall(found) == 1

\* the calls of CheckExternalFiles() in one SetSet: one on each path that
\* returns true, none on the paths that return false
HookCalls(found) == IF found # NULL THEN 1 ELSE 0

\* used_set as CheckExternalFiles() finds it: it is assigned before the call
UsedSetAtHook(found) == found

\* BaseMedia::SetSet on name; best is what DetermineBestSet selects when the
\* name is empty (NULL: it fails)
SetSet(name, best) ==
    LET found == IF StrEmpty(name) THEN best
                 ELSE FindByName(sets, available_sets, name)
    IN  /\ used_set' = IF found # NULL THEN found ELSE used_set
        /\ last' = [op |-> "SetSet", ini |-> NoIni, name |-> name, p |-> found,
                    ok |-> TRUE, duplicate |-> NULL, ret |-> (found # NULL),
                    hooks |-> HookCalls(found),
                    hook_used |-> IF HookCalls(found) > 0 THEN UsedSetAtHook(found) ELSE NULL]
        /\ UNCHANGED <<sets, freed, available_sets, duplicate_sets, allow_empty, parsed>>

\* the sets DetermineBestSet may select: one of available_sets, or none
DetermineBestSet == {NULL} \cup Range(Chain(sets, available_sets))

(***************************************************************************)
(* Content matching (the ENABLE_NETWORK build).                            *)
(***************************************************************************)
RECURSIVE XorFiles(_, _, _)
\* for (i = 0; i < NUM_FILES; i++) for (j...) md5[j] ^= s->files[i].hash[j]
XorFiles(files, i, md5) ==
    IF i >= Tnum_files THEN md5
    ELSE XorFiles(files, i + 1, [j \in 1..HashSize |-> BitXor(md5[j], files[i + 1].hash[j])])

\* the pointer s->files[0].filename, as [has_name, filename]
PrimaryFile(set) == [has_name |-> set.files[1].has_name, filename |-> set.files[1].filename]

NoFilename == [has_name |-> FALSE, filename |-> ""]

\* the test without the check for missing files
SkipsOnIdOnly(set, ci) == set.shortname # ci.unique_id

\* the test that makes TryGetBaseSetFile pass over the set
SkipsSet(set, ci) == GetNumMissing(set) # 0 \/ set.shortname # ci.unique_id

RECURSIVE TryGetBaseSetFile(_, _, _)
\* TryGetBaseSetFile(ci, md5sum, s): the filename returned, has_name FALSE for NULL
TryGetBaseSetFile(ci, md5sum, s) ==
    IF s = NULL THEN NoFilename
    ELSE IF SkipsSet(sets[s], ci) THEN TryGetBaseSetFile(ci, md5sum, sets[s].next)
    ELSE IF ~md5sum THEN PrimaryFile(sets[s])
    ELSE IF XorFiles(sets[s].files, 0, ZeroHash) = ci.md5sum THEN PrimaryFile(sets[s])
    ELSE TryGetBaseSetFile(ci, md5sum, sets[s].next)

\* BaseMedia::HasSet
HasSet(ci, md5sum) ==
    \/ TryGetBaseSetFile(ci, md5sum, available_sets).has_name
    \/ TryGetBaseSetFile(ci, md5sum, duplicate_sets).has_name

(***************************************************************************)
(* Counting, indexing and listing the available sets.                      *)
(***************************************************************************)
\* the filter without the exception for the used set
HiddenWhenMissing(s) == GetNumMissing(sets[s]) # 0

\* s != used_set && s->GetNumMissing() != 0: the set is passed over
Hidden(s) == s # used_set /\ GetNumMissing(sets[s]) # 0

RECURSIVE CountFrom(_, _)
\* the loop of GetNumSets from s on, n sets counted so far
CountFrom(s, n) ==
    IF s = NULL THEN n
    ELSE IF Hidden(s) THEN CountFrom(sets[s].next, n)
    ELSE CountFrom(sets[s].next, n + 1)

\* BaseMedia::GetNumSets
GetNumSets == CountFrom(available_sets, 0)

RECURSIVE IndexOfVisibleFrom(_, _)
\* the loop with the test for missing files before the test for the used set
IndexOfVisibleFrom(s, n) ==
    IF s = NULL THEN -1
    ELSE IF GetNumMissing(sets[s]) # 0 THEN IndexOfVisibleFrom(sets[s].next, n)
    ELSE IF s = used_set THEN n
    ELSE IndexOfVisibleFrom(sets[s].next, n + 1)

RECURSIVE IndexFrom(_, _)
\* the loop of GetIndexOfUsedSet from s on, n sets passed so far
IndexFrom(s, n) ==
    IF s = NULL THEN -1
    ELSE IF s = used_set THEN n
    ELSE IF GetNumMissing(sets[s]) # 0 THEN IndexFrom(sets[s].next, n)
    ELSE IndexFrom(sets[s].next, n + 1)

\* BaseMedia::GetIndexOfUsedSet
GetIndexOfUsedSet == IndexFrom(available_sets, 0)

\* what GetSet gives: the set returned, or the call of error(), which does
\* not return
FatalError == [fatal |-> TRUE, set |-> NULL]

RECURSIVE GetSetSkippingMissing(_, _)
\* the loop that passes over every set with a missing file, the used set too
GetSetSkippingMissing(s, index) ==
    IF s = NULL THEN FatalError
    ELSE IF HiddenWhenMissing(s) THEN GetSetSkippingMissing(sets[s].next, index)
    ELSE IF index = 0 THEN [fatal |-> FALSE, set |-> s]
    ELSE GetSetSkippingMissing(sets[s].next, index - 1)

RECURSIVE GetSetFrom(_, _)
\* the loop of GetSet from s on, with index sets still to pass
GetSetFrom(s, index) ==
    IF s = NULL THEN FatalError
    ELSE IF Hidden(s) THEN GetSetFrom(sets[s].next, index)
    ELSE IF index = 0 THEN [fatal |-> FALSE, set |-> s]
    ELSE GetSetFrom(sets[s].next, index - 1)

\* BaseMedia::GetSet
GetSet(index) == GetSetFrom(available_sets, index)

\* BaseSet::GetDescription for a language without a translation: the
\* description of the manifest
GetDescription(set) == set.description

NoNote == [kind |-> "", n |-> 0, plural |-> FALSE]

\* what follows the description on the line of a set: nothing,
\* " (%i corrupt file%s)" or " (unusable: %i missing file%s)"
LineNote(set) ==
    IF GetNumInvalid(set) # 0
    THEN IF GetNumMissing(set) = 0
         THEN [kind |-> "corrupt", n |-> GetNumInvalid(set),
               plural |-> GetNumInvalid(set) # 1]
         ELSE [kind |-> "unusable", n |-> GetNumMissing(set),
               plural |-> GetNumMissing(set) # 1]
    ELSE NoNote

\* "%18s: %s" with the name and the description, and the note
SetLine(set) ==
    [name |-> set.name, description |-> GetDescription(set), note |-> LineNote(set)]

RECURSIVE ListVisibleFrom(_, _)
\* the loop with the filter of GetNumSets
ListVisibleFrom(s, lines) ==
    IF s = NULL THEN lines
    ELSE IF Hidden(s) THEN ListVisibleFrom(sets[s].next, lines)
    ELSE ListVisibleFrom(sets[s].next, Append(lines, SetLine(sets[s])))

RECURSIVE ListFrom(_, _)
\* the loop of GetSetsList from s on, after the lines written so far
ListFrom(s, lines) ==
    IF s = NULL THEN lines
    ELSE ListFrom(sets[s].next, Append(lines, SetLine(sets[s])))

\* BaseMedia::GetSetsList: the lines between the header and the closing
\* empty line
GetSetsList == ListFrom(available_sets, <<>>)

(***************************************************************************)
(* Inputs.                                                                 *)
(***************************************************************************)
Item(v) == [present |-> TRUE, value |-> v]

\* "a", "b"
Names == {<<97>>, <<98>>}

\* "X1", "X2"
Shortnames == {<<88, 49>>, <<88, 50>>}

CheckResults == {"CR_MATCH", "CR_MISMATCH", "CR_NO_FILE"}

\* a files entry naming the file fname with checksum md5 (a C string)
FileSlot(fname, md5, check) ==
    [has_key |-> TRUE, has_value |-> TRUE, filename |-> fname,
     md5_present |-> TRUE, md5_has_value |-> TRUE, md5 |-> md5, check |-> check]

\* a files entry with no value: the set lists no file for the slot
EmptySlot ==
    [has_key |-> TRUE, has_value |-> FALSE, filename |-> "",
     md5_present |-> FALSE, md5_has_value |-> FALSE, md5 |-> <<>>, check |-> "CR_NO_FILE"]

\* the files group has no entry for the slot
NoSlot == [EmptySlot EXCEPT !.has_key = FALSE]

\* the md5s group has no entry for the file
NoMD5Slot(fname) ==
    [FileSlot(fname, <<>>, "CR_MATCH") EXCEPT !.md5_present = FALSE, !.md5_has_value = FALSE]

Manifest(name, shortname, version, fallback, files) ==
    [metadata |-> TRUE, name |-> name, description |-> Item(<<100>>),
     shortname |-> shortname, version |-> version, fallback |-> fallback,
     files |-> files]

\* the file names of the slots
FileNames == [i \in 1..Tnum_files |-> IF i = 1 THEN "f1" ELSE "f2"]

\* files that are all listed, with the checksum HexFF, and checked as results[i]
CheckedFiles(results) ==
    [i \in 1..Tnum_files |-> FileSlot(FileNames[i], HexFF, results[i])]

\* a manifest that lacks the shortname
NoShortname ==
    Manifest(Item(<<97>>), NoItem, Item(<<49>>), NoItem,
             CheckedFiles([i \in 1..Tnum_files |-> "CR_MATCH"]))

\* the version and the state of the first file of the candidates of Spec:
\* version 1 complete, version 2 with a missing file, version 2 complete
Candidates == {<<<<49>>, "CR_MATCH">>, <<<<50>>, "CR_NO_FILE">>, <<<<50>>, "CR_MATCH">>}

\* the manifests of Spec: every name and shortname for every candidate, and
\* one malformed manifest
RegManifests ==
    {Manifest(Item(n), Item(sn), Item(c[1]), NoItem,
              CheckedFiles([i \in 1..Tnum_files |-> IF i = 1 THEN c[2] ELSE "CR_MATCH"])) :
        n \in Names, sn \in Shortnames, c \in Candidates}
    \cup {NoShortname}

\* the names SetSet is called with: "", "a", "b"
SetNames == {<<>>} \cup Names

NoCall ==
    [op |-> "none", ini |-> NoIni, name |-> <<>>, p |-> NULL, ok |-> TRUE,
     duplicate |-> NULL, ret |-> FALSE, hooks |-> 0, hook_used |-> NULL]

(***************************************************************************)
(* Spec: the registry under AddFile and SetSet.                            *)
(***************************************************************************)
Init ==
    /\ sets = <<>>
    /\ freed = {}
    /\ available_sets = NULL
    /\ duplicate_sets = NULL
    /\ used_set = NULL
    /\ allow_empty = TRUE
    /\ last = NoCall
    /\ parsed = 0

Next ==
    \/ /\ Len(sets) < MaxAdds
       /\ \E ini \in RegManifests : AddFile(ini)
    \/ \E name \in SetNames :
          \E best \in (IF StrEmpty(name) THEN DetermineBestSet ELSE {NULL}) :
              SetSet(name, best)

Spec == Init /\ [][Next]_vars

(***************************************************************************)
(* SpecFill: AddFile on manifests of every form, and SetSet.               *)
(***************************************************************************)
AllMatch == CheckedFiles([i \in 1..Tnum_files |-> "CR_MATCH"])

\* the name and shortname pairs of the manifests of SpecFill: a/X1 and b/X2
FillIdentities == {<<<<97>>, <<88, 49>>>>, <<<<98>>, <<88, 50>>>>}

\* the states of the files of a set: per slot the answer of CheckMD5, or
\* "empty" for a slot that lists no file
FileStates ==
    {<<"CR_MATCH", "CR_MATCH">>, <<"CR_NO_FILE", "CR_MATCH">>,
     <<"CR_MISMATCH", "CR_NO_FILE">>, <<"CR_MISMATCH", "CR_MISMATCH">>,
     <<"empty", "CR_MATCH">>, <<"CR_MATCH", "empty">>}

StatusSlot(i, state) ==
    IF state = "empty" THEN EmptySlot ELSE FileSlot(FileNames[i], HexFF, state)

\* manifests with well formed metadata, one for every identity and file state
StatusManifests ==
    {Manifest(Item(id[1]), Item(id[2]), Item(<<49>>), NoItem,
              [i \in 1..Tnum_files |-> StatusSlot(i, st[i])]) :
        id \in FillIdentities, st \in FileStates}

\* one slot in each of the other forms: no files entry, no md5s entry, an
\* md5s entry without value, and the other checksum strings
OtherSlots(i) ==
    {NoSlot, NoMD5Slot(FileNames[i]),
     [FileSlot(FileNames[i], <<>>, "CR_MATCH") EXCEPT !.md5_has_value = FALSE]}
    \cup {FileSlot(FileNames[i], c, "CR_MATCH") :
            c \in {Hex0A, HexUpperFF, HexShort, HexLong, HexBadChar}}

\* manifests in which one slot has one of the other forms
ChecksumManifests ==
    {Manifest(Item(<<97>>), Item(<<88, 49>>), Item(<<49>>), NoItem,
              [AllMatch EXCEPT ![i] = slot]) :
        i \in 1..Tnum_files, slot \in UNION {OtherSlots(j) : j \in 1..Tnum_files}}

\* manifests with one defect in the metadata: the group is missing, or one of
\* name, description, shortname, version is missing or empty
MetadataManifests ==
    LET good == Manifest(Item(<<97>>), Item(<<88, 49>>), Item(<<49>>), NoItem, AllMatch)
    IN  {[good EXCEPT !.metadata = FALSE]}
        \cup {[good EXCEPT ![f] = item] :
                f \in {"name", "description", "shortname", "version"},
                item \in {NoItem, Item(<<>>)}}

\* manifests with a fallback entry: "0", "false", "1", "False"
FallbackManifests ==
    {Manifest(Item(<<97>>), Item(<<88, 49>>), Item(<<49>>), Item(v), AllMatch) :
        v \in {<<48>>, <<102, 97, 108, 115, 101>>, <<49>>, <<70, 97, 108, 115, 101>>}}

FillManifests ==
    StatusManifests \cup ChecksumManifests \cup MetadataManifests \cup FallbackManifests

InitFill ==
    /\ sets = <<>>
    /\ freed = {}
    /\ available_sets = NULL
    /\ duplicate_sets = NULL
    /\ used_set = NULL
    /\ allow_empty \in BOOLEAN
    /\ last = NoCall
    /\ parsed = 0

NextFill ==
    \/ /\ Len(sets) < MaxFillAdds
       /\ \E ini \in FillManifests : AddFile(ini)
    \/ \E name \in SetNames :
          \E best \in (IF StrEmpty(name) THEN DetermineBestSet ELSE {NULL}) :
              SetSet(name, best)

SpecFill == InitFill /\ [][NextFill]_vars

(***************************************************************************)
(* The checksum decoder on its own: AddFile of manifests that differ in    *)
(* the checksum of the first file only.                                    *)
(***************************************************************************)
MaxDecodeAdds == 1

DecodeManifests ==
    {Manifest(Item(<<97>>), Item(<<88, 49>>), Item(<<49>>), NoItem,
              [AllMatch EXCEPT ![1] = FileSlot(FileNames[1], c, "CR_MATCH")]) :
        c \in DecodeStrings}

InitDecode ==
    /\ sets = <<>>
    /\ freed = {}
    /\ available_sets = NULL
    /\ duplicate_sets = NULL
    /\ used_set = NULL
    /\ allow_empty \in BOOLEAN
    /\ last = NoCall
    /\ parsed = 0

NextDecode ==
    /\ Len(sets) < MaxDecodeAdds
    /\ \E ini \in DecodeManifests : AddFile(ini)

SpecDecode == InitDecode /\ [][NextDecode]_vars

(***************************************************************************)
(* The content queries: the identifiers of the shortnames, and the digests *)
(* that the checksums of the manifests can fold to.                        *)
(***************************************************************************)
QueryIds == {PackShortname(sn, 0, 0) : sn \in Shortnames}

QueryDigests ==
    {ZeroHash, DecodeMD5String(HexFF).hash, DecodeMD5String(Hex0A).hash,
     [j \in 1..HashSize |-> BitXor(DecodeMD5String(HexFF).hash[j],
                                   DecodeMD5String(Hex0A).hash[j])]}

Queries == [unique_id : QueryIds, md5sum : QueryDigests]

(***************************************************************************)
(* Vocabulary of the properties.                                           *)
(***************************************************************************)
\* acceptedSets and supersededSets as sequences of addresses
Accepted == Chain(sets, available_sets)

Superseded == Chain(sets, duplicate_sets)

AcceptedAfter == Chain(sets', available_sets')

SupersededAfter == Chain(sets', duplicate_sets')

\* the step is an AddFile call; the new set is at address Len(sets')
AddStep == Len(sets') = Len(sets) + 1

\* the step is an AddFile call whose manifest passed FillSetDetails
AddParsedStep == AddStep /\ last'.ok

\* the positions of acceptedSets whose set shares the name or the shortId with new
CollidingPositions(new) ==
    {k \in 1..Len(Accepted) :
        sets[Accepted[k]].name = new.name \/ sets[Accepted[k]].shortname = new.shortname}

FirstPosition(S) == CHOOSE k \in S : \A j \in S : k <= j

\* a is at least as good as b: more valid files, or as many and no lower version
AtLeastAsGood(a, b) ==
    a.valid_files > b.valid_files
        \/ (a.valid_files = b.valid_files /\ a.version >= b.version)

\* the four fields that make two descriptors identical candidates
SameCandidate(a, b) ==
    /\ a.name = b.name
    /\ a.shortname = b.shortname
    /\ a.version = b.version
    /\ a.valid_files = b.valid_files

\* the sets already on the heap are as they were
OldSetsUnchanged == \A q \in 1..Len(sets) : sets'[q] = sets[q]

\* C1: no two distinct members of acceptedSets have the same name, and no two
\* have the same shortId.
C1_UniqueNameAndShortId ==
    \A i, j \in 1..Len(Accepted) :
        i # j => /\ sets[Accepted[i]].name # sets[Accepted[j]].name
                 /\ sets[Accepted[i]].shortname # sets[Accepted[j]].shortname

\* C2: whenever a member of acceptedSets and a member of supersededSets share
\* the name or the shortId, the accepted one is at least as good (more valid
\* files, or as many and a version greater than or equal).
C2_AcceptedIsBest ==
    \A a \in Range(Accepted) : \A d \in Range(Superseded) :
        (sets[a].name = sets[d].name \/ sets[a].shortname = sets[d].shortname)
            => AtLeastAsGood(sets[a], sets[d])

\* C3: when AddFile finds a colliding accepted set D (the first in list order)
\* for a parsed new set, the new set loses (it becomes the head of
\* supersededSets, AddFile returns false, acceptedSets is unchanged) exactly
\* when D has more valid files, or as many and a version >= the new one's;
\* otherwise it wins (AddFile returns true and the new set is accepted).
C3_LosesExactlyWhen ==
    [][(AddParsedStep /\ CollidingPositions(sets'[Len(sets')]) # {}) =>
          LET new == sets'[Len(sets')]
              D == sets[Accepted[FirstPosition(CollidingPositions(new))]]
          IN  IF D.valid_files > new.valid_files
                    \/ (D.valid_files = new.valid_files /\ D.version >= new.version)
              THEN /\ ~last'.ret
                   /\ duplicate_sets' = Len(sets')
                   /\ AcceptedAfter = Accepted
              ELSE /\ last'.ret
                   /\ Len(sets') \in Range(AcceptedAfter)
                   /\ Len(sets') \notin Range(SupersededAfter)
      ]_vars

\* a new set with more valid files and a lower version has just won
C3_Witness ==
    /\ last.op = "AddFile" /\ last.ret /\ last.duplicate # NULL
    /\ sets[last.p].valid_files > sets[last.duplicate].valid_files
    /\ sets[last.p].version < sets[last.duplicate].version

\* C4: when the new set wins against D at position k of acceptedSets, it is at
\* position k afterwards, every other member keeps its position, D is the head
\* of supersededSets and the former superseded sets follow in their order.
C4_WinnerTakesPosition ==
    [][(AddParsedStep /\ last'.ret /\ CollidingPositions(sets'[Len(sets')]) # {}) =>
          LET k == FirstPosition(CollidingPositions(sets'[Len(sets')]))
          IN  /\ AcceptedAfter = [Accepted EXCEPT ![k] = Len(sets')]
              /\ SupersededAfter = <<Accepted[k]>> \o Superseded
      ]_vars

\* a new set has just taken the second of two positions
C4_Witness ==
    /\ last.op = "AddFile" /\ last.ret /\ last.duplicate # NULL
    /\ Len(Accepted) = 2 /\ Accepted[2] = last.p
    /\ duplicate_sets = last.duplicate

\* C5: used_set is NULL or a current member of acceptedSets; it is never a
\* superseded or a deleted set.
C5_UsedSetIsAccepted ==
    used_set # NULL =>
        /\ used_set \in Range(Accepted)
        /\ used_set \notin Range(Superseded)
        /\ used_set \notin freed

\* the used set was just superseded and used_set moved to the winner
C5_Witness ==
    /\ last.op = "AddFile" /\ last.ret /\ last.duplicate # NULL
    /\ used_set = last.p
    /\ last.duplicate \in Range(Superseded)

DegradedSlots(ini) ==
    {i \in 1..Len(ini.files) : ini.files[i].has_value /\ ini.files[i].check # "CR_MATCH"}

\* the slots that count as valid: listed empty, or checked as matching
ValidSlots(ini) ==
    {i \in 1..Len(ini.files) : ~ini.files[i].has_value \/ ini.files[i].check = "CR_MATCH"}

\* the slots that count as found: valid, or checked as mismatching
FoundSlots(ini) ==
    ValidSlots(ini) \cup {i \in 1..Len(ini.files) : ini.files[i].check = "CR_MISMATCH"}

\* C7: a well formed manifest with missing or mismatching files is not
\* rejected: FillSetDetails succeeds, AddFile links the set into one of the
\* lists (at the tail of acceptedSets, returning true, when nothing collides)
\* and valid_files and found_files count the degraded files out.
C7_DegradedIsLinked ==
    [][(AddStep /\ WellFormed(last'.ini, allow_empty) /\ DegradedSlots(last'.ini) # {}) =>
          LET new == sets'[Len(sets')]
          IN  /\ last'.ok
              /\ Len(sets') \in Range(AcceptedAfter) \cup Range(SupersededAfter)
              /\ new.valid_files = Cardinality(ValidSlots(last'.ini))
              /\ new.found_files = Cardinality(FoundSlots(last'.ini))
              /\ CollidingPositions(new) = {} =>
                    (last'.ret /\ AcceptedAfter = Append(Accepted, Len(sets')))
      ]_vars

\* a set with a missing and a mismatching file was just appended behind another
C7_Witness ==
    /\ last.op = "AddFile" /\ last.ret /\ last.duplicate = NULL
    /\ \E i, j \in DegradedSlots(last.ini) :
          last.ini.files[i].check = "CR_NO_FILE" /\ last.ini.files[j].check = "CR_MISMATCH"
    /\ Len(Accepted) = 2 /\ Accepted[2] = last.p
    /\ sets[last.p].valid_files = 0 /\ sets[last.p].found_files = 1

\* C8: every set that passed FillSetDetails is in exactly one of acceptedSets
\* and supersededSets, once; both lists end in NULL; and their lengths add up
\* to the number of AddFile calls whose manifest was well formed.
C8_EveryParsedSetInOneList ==
    /\ EndsInNull(sets, available_sets, {})
    /\ EndsInNull(sets, duplicate_sets, {})
    /\ Range(Accepted) \cap Range(Superseded) = {}
    /\ Range(Accepted) \cup Range(Superseded) = (1..Len(sets)) \ freed
    /\ Len(Accepted) + Len(Superseded) = parsed

\* three sets were parsed, one was refused, one moved between the lists
C8_Witness ==
    /\ parsed = 2 /\ freed # {}
    /\ last.op = "AddFile" /\ last.ret /\ last.duplicate # NULL
    /\ Len(Superseded) = 1

\* C9: an AddFile that directly follows the AddFile of an identical set (same
\* name, shortId, version and valid_files) returns false, leaves acceptedSets
\* and used_set unchanged and puts the second set into supersededSets.
C9_IdenticalAddLoses ==
    [][(/\ last.op = "AddFile" /\ last.ok
        /\ AddParsedStep
        /\ SameCandidate(sets[last.p], sets'[Len(sets')])) =>
          /\ ~last'.ret
          /\ AcceptedAfter = Accepted
          /\ used_set' = used_set
          /\ Len(sets') \in Range(SupersededAfter)
      ]_vars

\* the same set was added three times in a row
C9_Witness ==
    /\ Len(sets) = 3 /\ freed = {}
    /\ SameCandidate(sets[1], sets[2]) /\ SameCandidate(sets[2], sets[3])
    /\ last.op = "AddFile" /\ ~last.ret
    /\ Len(Superseded) = 2 /\ Len(Accepted) = 1

\* a set of one of the lists that has no missing file, the requested id and,
\* when the digest is checked, file checksums whose XOR is the requested digest
CompleteMatch(q, ci, md5sum) ==
    /\ sets[q].found_files = Tnum_files
    /\ sets[q].shortname = ci.unique_id
    /\ md5sum =>
          \A j \in 1..HashSize :
              ci.md5sum[j] = XorFiles(sets[q].files, 0, ZeroHash)[j]

\* C10: whenever HasSet returns true, a set of acceptedSets or supersededSets
\* with no missing file has the requested shortId and, when the digest check
\* is requested, the requested XOR-folded digest.
C10_HasSetOnlyOnCompleteSet ==
    \A ci \in Queries : \A md5sum \in BOOLEAN :
        HasSet(ci, md5sum) =>
            \E q \in Range(Accepted) \cup Range(Superseded) : CompleteMatch(q, ci, md5sum)

\* HasSet answers true from the superseded list while the accepted set with
\* the requested id has a missing file
C10_Witness ==
    \E ci \in Queries :
        /\ HasSet(ci, TRUE)
        /\ \E a \in Range(Accepted) :
              sets[a].shortname = ci.unique_id /\ sets[a].found_files < Tnum_files

\* C11: whenever a set of acceptedSets or supersededSets has no missing file,
\* the requested shortId and (when the digest check is requested) the
\* requested XOR-folded digest, HasSet returns true, also when the first file
\* slot of that set was declared empty.
C11_HasSetFindsEveryMatch ==
    \A ci \in Queries : \A md5sum \in BOOLEAN :
        (\E q \in Range(Accepted) \cup Range(Superseded) : CompleteMatch(q, ci, md5sum))
            => HasSet(ci, md5sum)

\* the positions of acceptedSets that hold the used set or a set with no
\* missing file
VisiblePositions ==
    {k \in 1..Len(Accepted) :
        Accepted[k] = used_set \/ sets[Accepted[k]].found_files = Tnum_files}

\* C12: count() is the number of members of acceptedSets that are the
\* activeSet or have no missing file; members of supersededSets are never
\* counted.
C12_CountIsVisibleAccepted == GetNumSets = Cardinality(VisiblePositions)

\* two accepted sets with missing files, one of them in use, and a
\* superseded set: the count is one
C12_Witness ==
    /\ Len(Accepted) = 2
    /\ Len(Superseded) = 1
    /\ used_set # NULL
    /\ \A k \in 1..2 : GetNumMissing(sets[Accepted[k]]) # 0
    /\ GetNumSets = 1

\* C13: in every state reached by AddFile and SetSet, indexOfActive() is -1
\* exactly when activeSet is null, and once it is not -1 it is never -1
\* again, also after an AddFile that replaces the selected set.
C13_IndexOfUsedSetIsDefined ==
    /\ [](GetIndexOfUsedSet = -1 <=> used_set = NULL)
    /\ [][GetIndexOfUsedSet # -1 => GetIndexOfUsedSet' # -1]_vars

\* the selected set has just been replaced by a better one, behind another
\* visible set
C13_Witness ==
    /\ last.op = "AddFile"
    /\ last.duplicate # NULL
    /\ used_set = last.p
    /\ GetIndexOfUsedSet = 1

\* the positions of acceptedSets whose set has the given name
NamedPositions(name) == {k \in 1..Len(Accepted) : sets[Accepted[k]].name = name}

\* C14: SetSet with a non-empty name returns true exactly when a member of
\* acceptedSets has that name; then activeSet is the first such member in
\* list order; otherwise activeSet, acceptedSets and supersededSets are
\* unchanged. A name found in supersededSets only is not selectable.
C14_SetSetSelectsFirstOfName ==
    [][(last'.op = "SetSet" /\ ~StrEmpty(last'.name)) =>
        LET hits == NamedPositions(last'.name)
        IN  /\ last'.ret <=> hits # {}
            /\ hits # {} => used_set' = Accepted[FirstPosition(hits)]
            /\ hits = {} =>
                /\ used_set' = used_set
                /\ AcceptedAfter = Accepted
                /\ SupersededAfter = Superseded]_vars

\* a SetSet that chose the first of two accepted sets of the same name
C14_Witness ==
    /\ last.op = "SetSet"
    /\ last.ret
    /\ Cardinality(NamedPositions(last.name)) = 2
    /\ used_set = Accepted[1]

\* the checksum given for the first file in the manifest of the last call
FirstChecksum == last.ini.files[1].md5

\* the call was an AddFile whose manifest gives a checksum for the first file
DecodedFirst ==
    /\ last.op = "AddFile"
    /\ last.ini.metadata
    /\ last.ini.files[1].has_value
    /\ last.ini.files[1].md5_present
    /\ last.ini.files[1].md5_has_value

\* exactly 2 * HashSize characters, all of them hexadecimal digits
ExactHex(md5) == Len(md5) = 2 * HashSize /\ \A k \in 1..Len(md5) : md5[k] \in HexChars

\* C15: a checksum that is not exactly 2*N hexadecimal characters (a character
\* outside [0-9a-fA-F] at any position, fewer than 2*N characters, or more
\* than 2*N characters) makes FillSetDetails fail.
C15_RejectsAllButExactHex ==
    (DecodedFirst /\ ~ExactHex(FirstChecksum)) => ~last.ok

\* the value of a hexadecimal digit, read off the digit strings
\* "0123456789abcdef" and "0123456789ABCDEF"
HexValue(ch) ==
    LET lower == <<48, 49, 50, 51, 52, 53, 54, 55, 56, 57, 97, 98, 99, 100, 101, 102>>
        upper == <<48, 49, 50, 51, 52, 53, 54, 55, 56, 57, 65, 66, 67, 68, 69, 70>>
    IN  (CHOOSE v \in 1..16 : lower[v] = ch \/ upper[v] = ch) - 1

\* C16: for a checksum of exactly 2*N hexadecimal characters the decoder
\* succeeds, and byte k of the digest is 16 * value(character 2k) +
\* value(character 2k+1), counting from 0, the same for upper and lower case.
C16_DecodesBigNibbleFirst ==
    (DecodedFirst /\ ExactHex(FirstChecksum)) =>
        /\ last.ok
        /\ \A k \in 0..(HashSize - 1) :
              sets[last.p].files[1].hash[k + 1] =
                  (16 * HexValue(FirstChecksum[(2 * k) + 1]))
                      + HexValue(FirstChecksum[(2 * k) + 2])

\* "0123456789abcdefABCDEF9876543210" was decoded: "ab" and "AB" both gave 171
C16_Witness ==
    /\ DecodedFirst
    /\ last.ok
    /\ FirstChecksum = HexEveryDigit
    /\ sets[last.p].files[1].hash[6] = 171
    /\ sets[last.p].files[1].hash[9] = 171

\* the manifest value is the literal "0" or "false"
SaysNoFallback(item) ==
    item.present /\ item.value \in {<<48>>, <<102, 97, 108, 115, 101>>}

\* the last call was an AddFile whose FillSetDetails succeeded
FilledLast == last.op = "AddFile" /\ last.ok

\* C17 as stated: after a successful FillSetDetails the fallback flag is true
\* unless the manifest value is the literal "0" or "false"; it is true when
\* the key is absent.
C17_FallbackTrueUnlessDenied ==
    FilledLast => (sets[last.p].fallback <=> ~SaysNoFallback(last.ini.fallback))

\* C17 amended: after a successful FillSetDetails the fallback flag is true
\* exactly when the manifest has a fallback value and that value is neither
\* the literal "0" nor the literal "false"; it is false when the key is absent.
C17_FallbackNeedsKey ==
    FilledLast =>
        (sets[last.p].fallback <=>
            (last.ini.fallback.present /\ ~SaysNoFallback(last.ini.fallback)))

\* a set filled from a manifest that says "fallback = False": the flag is set
C17_Witness ==
    /\ FilledLast
    /\ last.ini.fallback = Item(<<70, 97, 108, 115, 101>>)
    /\ sets[last.p].fallback

\* the set is the active set or has no missing file
IsVisible(p) == p = used_set \/ sets[p].found_files = Tnum_files

\* the members of acceptedSets that are visible, in list order
VisibleAccepted == SelectSeq(Accepted, IsVisible)

NoteOwed(set) ==
    IF set.found_files < Tnum_files
    THEN [kind |-> "unusable", n |-> Tnum_files - set.found_files,
          plural |-> Tnum_files - set.found_files # 1]
    ELSE IF set.valid_files < Tnum_files
    THEN [kind |-> "corrupt", n |-> Tnum_files - set.valid_files,
          plural |-> Tnum_files - set.valid_files # 1]
    ELSE NoNote

DeclaredEmpty(ini) == {i \in 1..Len(ini.files) : ~ini.files[i].has_value}

CheckedAs(ini, res) ==
    {i \in 1..Len(ini.files) : ini.files[i].has_value /\ ini.files[i].check = res}

\* C19: after a successful FillSetDetails, validCount is the number of slots
\* declared empty plus the number checked as Matched, foundCount is
\* validCount plus the number checked as Mismatched, and
\* 0 <= validCount <= foundCount <= K; the counts start from zero in every
\* call.
C19_CountsFollowTheChecks ==
    FilledLast =>
        LET new == sets[last.p]
        IN  /\ new.valid_files =
                  Cardinality(DeclaredEmpty(last.ini))
                      + Cardinality(CheckedAs(last.ini, "CR_MATCH"))
            /\ new.found_files =
                  new.valid_files + Cardinality(CheckedAs(last.ini, "CR_MISMATCH"))
            /\ 0 <= new.valid_files
            /\ new.valid_files <= new.found_files
            /\ new.found_files <= Tnum_files

\* the second call filled a set with an empty slot and a matching file,
\* after a set whose files both mismatched
C19_Witness ==
    /\ FilledLast
    /\ last.p = 2
    /\ sets[1].valid_files = 0
    /\ sets[1].found_files = 2
    /\ DeclaredEmpty(last.ini) # {}
    /\ sets[2].valid_files = 2
    /\ sets[2].found_files = 2

\* C20: CheckExternalFiles runs exactly once in every SetSet call that
\* returns true, and then after activeSet has been set; it does not run in a
\* SetSet call that returns false (a name that no accepted set has, or the
\* empty name when no best set can be determined).
C20_HookOncePerSelection ==
    [][last'.op = "SetSet" =>
          /\ last'.ret =>
                /\ last'.hooks = 1
                /\ used_set' # NULL
                /\ last'.hook_used = used_set'
          /\ ~last'.ret =>
                /\ last'.hooks = 0
                /\ used_set' = used_set]_vars

\* SetSet with the empty name moved the selection to another set, and
\* CheckExternalFiles ran once on the new selection
C20_Witness ==
    /\ last.op = "SetSet"
    /\ StrEmpty(last.name)
    /\ last.ret
    /\ last.hooks = 1
    /\ last.hook_used = used_set
    /\ Len(Accepted) >= 2
    /\ used_set = Accepted[2]

\* the indexes asked for: those below count(), count() itself and one more
Indexes == 0..(Len(Accepted) + 1)

\* C21: for every i with 0 <= i < count(), GetSet(i) returns the i-th visible
\* member of acceptedSets and does not reach the fatal error; for i >= count()
\* it reaches the error; when activeSet is not null,
\* 0 <= indexOfActive() < count() and GetSet(indexOfActive()) is activeSet.
C21_EnumerationsAgree ==
    /\ \A i \in Indexes :
          IF i < GetNumSets
          THEN /\ ~GetSet(i).fatal
               /\ i < Len(VisibleAccepted)
               /\ GetSet(i).set = VisibleAccepted[i + 1]
          ELSE GetSet(i).fatal
    /\ used_set # NULL =>
          /\ 0 <= GetIndexOfUsedSet
          /\ GetIndexOfUsedSet < GetNumSets
          /\ GetSet(GetIndexOfUsedSet) = [fatal |-> FALSE, set |-> used_set]

\* the used set has a missing file and stands behind a set that is passed
\* over: it is the only visible set, at index 0
C21_Witness ==
    /\ Len(Accepted) = 2
    /\ ~IsVisible(Accepted[1])
    /\ used_set = Accepted[2]
    /\ GetNumMissing(sets[used_set]) # 0
    /\ GetNumSets = 1
    /\ GetIndexOfUsedSet = 0
    /\ GetSet(0).set = used_set
    /\ GetSet(1).fatal

=============================================================================
